---- MODULE Spec2Model ----
(***************************************************************************)
(* CSAT calculator (src/csat_calculator.py).                               *)
(*                                                                         *)
(* The script is a Streamlit page: every change of a sidebar widget runs   *)
(* the whole script again, top to bottom, on the widgets' current values.  *)
(* The state is the widgets' values and the values the last run computed.  *)
(*                                                                         *)
(* Numbers.  The script computes in numpy float64.  The model keeps every  *)
(* value exact:                                                            *)
(*   - a float is an extended rational [k, n, d]: k = "fin" is n/d in      *)
(*     lowest terms with d > 0; k = "nan", "inf", "ninf" are the IEEE      *)
(*     specials numpy produces on x/0 and 0/0 (a warning, no exception);   *)
(*   - the result of np.sqrt is a root [k, n, d, e]: k = "fin" is          *)
(*     sqrt(n/d) * 10^(-e); the exponent e carries default_zero = 1e-8,    *)
(*     whose square does not fit a 32-bit integer;                         *)
(*   - a confidence level is an integer number of hundredths (0.95 is 95); *)
(*   - a t quantile is an integer number of thousandths (2.262 is 2262).   *)
(* IEEE -0.0 is not distinguished from 0: the script only feeds it to      *)
(* max(., default_zero) and to np.sqrt, which treat both alike.            *)
(***************************************************************************)
EXTENDS Integers, Sequences, FiniteSets, TLC

VARIABLES res_list, conf_level, total_entry, out, first_run

vars == <<res_list, conf_level, total_entry, out, first_run>>

\* ---------------------------------------------------------------- bounds
\* Largest count entered for one rating level (the widget has no maximum).
MaxCount == 3
\* Largest value entered in the "Total survey sent out" widget.
MaxTotal == 4

\* ------------------------------------------------------ program constants
n_level == 5
default_response == <<2, 1, 2, 3, 2>>
\* query('rating >= 4')
threshold == 4
\* the slider's value=0.95
default_conf == 95
\* values of the slider 0.80 .. 0.99 (step 0.01) the model moves it to
ConfLevels == {80, 95, 99}

Levels == 1..n_level

\* ------------------------------------------------------ float64 arithmetic
RECURSIVE GCD(_, _)
GCD(a, b) == IF b = 0 THEN a ELSE GCD(b, a % b)

Abs(a) == IF a < 0 THEN -a ELSE a

NaN == [k |-> "nan", n |-> 0, d |-> 1]
PosInf == [k |-> "inf", n |-> 0, d |-> 1]
NegInf == [k |-> "ninf", n |-> 0, d |-> 1]

\* n/d in lowest terms, d # 0
Fin(n, d) ==
    LET g == GCD(Abs(n), Abs(d))
        s == IF d < 0 THEN -1 ELSE 1
    IN  [k |-> "fin", n |-> s * (n \div g), d |-> s * (d \div g)]

Num(i) == [k |-> "fin", n |-> i, d |-> 1]

Sign(x) ==
    CASE x.k = "inf" -> 1
      [] x.k = "ninf" -> -1
      [] x.k = "fin" -> (IF x.n > 0 THEN 1 ELSE IF x.n < 0 THEN -1 ELSE 0)
      [] OTHER -> 0

Signed(s) == IF s > 0 THEN PosInf ELSE NegInf

Add(x, y) ==
    CASE x.k = "nan" \/ y.k = "nan" -> NaN
      [] x.k = "fin" /\ y.k = "fin" -> Fin(x.n * y.d + y.n * x.d, x.d * y.d)
      [] x.k = "fin" -> y
      [] y.k = "fin" -> x
      [] OTHER -> IF x.k = y.k THEN x ELSE NaN

Neg(x) ==
    CASE x.k = "nan" -> NaN
      [] x.k = "inf" -> NegInf
      [] x.k = "ninf" -> PosInf
      [] OTHER -> Fin(-x.n, x.d)

Sub(x, y) == Add(x, Neg(y))

Mul(x, y) ==
    CASE x.k = "nan" \/ y.k = "nan" -> NaN
      [] x.k = "fin" /\ y.k = "fin" -> Fin(x.n * y.n, x.d * y.d)
      [] OTHER -> IF Sign(x) * Sign(y) = 0 THEN NaN ELSE Signed(Sign(x) * Sign(y))

Div(x, y) ==
    CASE x.k = "nan" \/ y.k = "nan" -> NaN
      [] x.k = "fin" /\ y.k = "fin" ->
           IF y.n # 0 THEN Fin(x.n * y.d, x.d * y.n)
           ELSE IF x.n = 0 THEN NaN ELSE Signed(x.n)
      [] x.k = "fin" -> Num(0)
      [] y.k = "fin" -> IF y.n = 0 THEN x ELSE Signed(Sign(x) * Sign(y))
      [] OTHER -> NaN

RootNaN == [k |-> "nan", n |-> 0, d |-> 1, e |-> 0]
RootInf == [k |-> "inf", n |-> 0, d |-> 1, e |-> 0]

\* np.sqrt: nan for a negative argument (a warning, no exception)
Sqrt(x) ==
    CASE x.k = "nan" \/ x.k = "ninf" -> RootNaN
      [] x.k = "inf" -> RootInf
      [] OTHER -> IF x.n < 0 THEN RootNaN
                  ELSE [k |-> "fin", n |-> x.n, d |-> x.d, e |-> 0]

RootIsZero(a) == a.k = "fin" /\ a.n = 0

RootMul(a, b) ==
    CASE a.k = "nan" \/ b.k = "nan" -> RootNaN
      [] a.k = "fin" /\ b.k = "fin" ->
           LET r == Fin(a.n * b.n, a.d * b.d)
           IN  [k |-> "fin", n |-> r.n, d |-> r.d,
                e |-> IF r.n = 0 THEN 0 ELSE a.e + b.e]
      [] OTHER -> IF RootIsZero(a) \/ RootIsZero(b) THEN RootNaN ELSE RootInf

RootDiv(a, b) ==
    CASE a.k = "nan" \/ b.k = "nan" -> RootNaN
      [] a.k = "fin" /\ b.k = "fin" ->
           IF b.n # 0
           THEN LET r == Fin(a.n * b.d, a.d * b.n)
                IN  [k |-> "fin", n |-> r.n, d |-> r.d,
                     e |-> IF r.n = 0 THEN 0 ELSE a.e - b.e]
           ELSE IF a.n = 0 THEN RootNaN ELSE RootInf
      [] a.k = "fin" -> [k |-> "fin", n |-> 0, d |-> 1, e |-> 0]
      [] b.k = "fin" -> RootInf
      [] OTHER -> RootNaN

\* a > b on roots: False when either is nan.  With different exponents the
\* one with the larger exponent is the smaller unless the other is 0:
\* numerators and denominators stay far below 10^8.
RootGt(a, b) ==
    /\ a.k # "nan" /\ b.k # "nan"
    /\ \/ a.k = "inf" /\ b.k = "fin"
       \/ /\ a.k = "fin" /\ b.k = "fin"
          /\ IF a.n = 0 THEN FALSE
             ELSE IF b.n = 0 THEN TRUE
             ELSE IF a.e = b.e THEN a.n * b.d > b.n * a.d
             ELSE a.e < b.e

\* Python's max(a, b): a unless b > a, so max(nan, b) is nan
PyMax(a, b) == IF RootGt(b, a) THEN b ELSE a

\* ------------------------------------------------------------ the script
\* mutant: ratings numbered from 0, range(0, 5)
rating_from_zero(i) == i - 1

\* df_survey['rating']: range(1, 6)
rating(i) == i

RECURSIVE count_sum(_, _)
\* df_survey['count'].sum(), rows 1..i
count_sum(rl, i) == IF i = 0 THEN 0 ELSE count_sum(rl, i - 1) + rl[i]

RECURSIVE rating_count_sum(_, _)
\* (df_survey['rating'] * df_survey['count']).sum(), rows 1..i
rating_count_sum(rl, i) ==
    IF i = 0 THEN 0 ELSE rating_count_sum(rl, i - 1) + rating(i) * rl[i]

RECURSIVE top_count_sum(_, _)
\* df_survey.query('rating >= 4')['count'].sum(), rows 1..i
top_count_sum(rl, i) ==
    IF i = 0 THEN 0
    ELSE top_count_sum(rl, i - 1) + (IF rating(i) >= threshold THEN rl[i] ELSE 0)

survey_count(rl) == count_sum(rl, n_level)

csat_score(rl) == Div(Num(rating_count_sum(rl, n_level)), Num(survey_count(rl)))

csat_percent(rl) == Div(Num(top_count_sum(rl, n_level)), Num(survey_count(rl)))

degrees_freedom(count) == count - 1

\* row i of df_survey_1['diff2']
diff2(rl, score, i) ==
    LET diff == Sub(Num(rating(i)), score)
    IN  Mul(Mul(diff, diff), Num(rl[i]))

RECURSIVE diff2_sum(_, _, _)
\* df_survey_1['diff2'].sum(), rows 1..i: pandas' sum drops nan (skipna=True)
diff2_sum(rl, score, i) ==
    IF i = 0 THEN Num(0)
    ELSE LET row == diff2(rl, score, i)
         IN  Add(diff2_sum(rl, score, i - 1), IF row.k = "nan" THEN Num(0) ELSE row)

\* mutant: the population variance, divided by N instead of N - 1
std_sample_population(rl, score, df) ==
    Sqrt(Div(diff2_sum(rl, score, n_level), Num(df + 1)))

std_sample(rl, score, df) == Sqrt(Div(diff2_sum(rl, score, n_level), Num(df)))

std_csat_score(std, count) == RootDiv(std, Sqrt(Num(count)))

std_csat_percent(percent, count) ==
    Sqrt(Div(Mul(percent, Sub(Num(1), percent)), Num(count)))

\* scipy's t.ppf((1 + conf)/2, df) in thousandths, df = 1 .. 25
t_table ==
    [c \in ConfLevels |->
        CASE c = 80 ->
               <<3078, 1886, 1638, 1533, 1476, 1440, 1415, 1397, 1383, 1372,
                 1363, 1356, 1350, 1345, 1341, 1337, 1333, 1330, 1328, 1325,
                 1323, 1321, 1319, 1318, 1316>>
          [] c = 95 ->
               <<12706, 4303, 3182, 2776, 2571, 2447, 2365, 2306, 2262, 2228,
                 2201, 2179, 2160, 2145, 2131, 2120, 2110, 2101, 2093, 2086,
                 2080, 2074, 2069, 2064, 2060>>
          [] c = 99 ->
               <<63657, 9925, 5841, 4604, 4032, 3707, 3499, 3355, 3250, 3169,
                 3106, 3055, 3012, 2977, 2947, 2921, 2898, 2878, 2861, 2845,
                 2831, 2819, 2807, 2797, 2787>>]

\* mutant: the normal approximation's fixed 1.96
t_crit_normal(conf, df) == 1960

t_crit(conf, df) == t_table[conf][df]

NanInterval == [k |-> "nan", loc |-> NaN, t |-> 0, scale |-> RootNaN]

\* stats.t.interval(conf, df, loc, scale): the pair (loc - t*scale, loc + t*scale),
\* kept as [loc, t, scale].  scipy's ppf answers nan, without raising, unless
\* df > 0, scale > 0 and loc is a number.
t_interval(conf, df, loc, scale) ==
    IF df > 0 /\ RootGt(scale, [k |-> "fin", n |-> 0, d |-> 1, e |-> 0])
              /\ loc.k # "nan"
    THEN [k |-> IF scale.k = "fin" /\ loc.k = "fin" THEN "fin" ELSE "inf",
          loc |-> loc, t |-> t_crit(conf, df), scale |-> scale]
    ELSE NanInterval

\* the "Total survey sent out" widget: no entry yet, or the number entered
NoEntry == [set |-> FALSE, v |-> 0]
Entered(t) == [set |-> TRUE, v |-> t]

\* mutant: the default is the count of the run before, kept across runs
survey_total_stale(count, en) == IF en.set THEN en.v ELSE survey_count(res_list)

\* st.number_input(value=survey_count, min_value=0): the entry, else the default
survey_total(count, en) == IF en.set THEN en.v ELSE count

fpc(total, count) == Sqrt(Div(Num(total - count), Num(total - 1)))

default_zero == [k |-> "fin", n |-> 1, d |-> 1, e |-> 8]

\* max(fpc, default_zero)
fpc_factor(f) == PyMax(f, default_zero)

\* The exception a run ends with: the script has no raise and no check of its
\* inputs, and numpy, pandas and scipy answer nan or inf instead of raising.
raised(rl, cl, en) == "none"

\* One run of the script on the widgets' values
Script(rl, cl, en) ==
    LET count == survey_count(rl)
        score == csat_score(rl)
        percent == csat_percent(rl)
        df == degrees_freedom(count)
        std == std_sample(rl, score, df)
        std_score == std_csat_score(std, count)
        std_percent == std_csat_percent(percent, count)
        total == survey_total(count, en)
        f == fpc(total, count)
        factor == fpc_factor(f)
    IN  [survey_count |-> count,
         csat_score |-> score,
         csat_percent |-> percent,
         degrees_freedom |-> df,
         std_sample |-> std,
         std_csat_score |-> std_score,
         std_csat_percent |-> std_percent,
         csat_score_ci |-> t_interval(cl, df, score, std_score),
         csat_percent_ci |-> t_interval(cl, df, percent, std_percent),
         survey_total |-> total,
         fpc |-> f,
         fpc_factor |-> factor,
         csat_score_ci_fpc |-> t_interval(cl, df, score, RootMul(std_score, factor)),
         csat_percent_ci_fpc |->
             t_interval(cl, df, percent, RootMul(std_percent, factor)),
         raised |-> raised(rl, cl, en)]

\* what the user has put in: the widgets' values
Inputs == [res_list |-> res_list, conf_level |-> conf_level,
           total_entry |-> total_entry]

\* ------------------------------------------------------------ the page
Init ==
    /\ res_list = default_response
    /\ conf_level = default_conf
    /\ total_entry = NoEntry
    /\ out = Script(res_list, conf_level, total_entry)
    /\ first_run = [in |-> Inputs, out |-> out, later |-> FALSE]

\* A rating count is stepped up or down (step=1, min_value=0).  The total
\* widget's default, survey_count, changes with it, and Streamlit derives a
\* widget's identity from its arguments: it is a new widget, without an entry.
SetResponse(i, v) ==
    /\ v \in {res_list[i] - 1, res_list[i] + 1}
    /\ res_list' = [res_list EXCEPT ![i] = v]
    /\ total_entry' = NoEntry
    /\ UNCHANGED conf_level
    /\ out' = Script(res_list', conf_level', total_entry')
    /\ first_run' = [first_run EXCEPT !.later = TRUE]

\* The confidence slider is moved
SetConfLevel(c) ==
    /\ c # conf_level
    /\ conf_level' = c
    /\ UNCHANGED <<res_list, total_entry>>
    /\ out' = Script(res_list', conf_level', total_entry')
    /\ first_run' = [first_run EXCEPT !.later = TRUE]

\* A number is entered in the "Total survey sent out" widget
SetSurveyTotal(t) ==
    /\ total_entry # Entered(t)
    /\ total_entry' = Entered(t)
    /\ UNCHANGED <<res_list, conf_level>>
    /\ out' = Script(res_list', conf_level', total_entry')
    /\ first_run' = [first_run EXCEPT !.later = TRUE]

Next ==
    \/ \E i \in Levels, v \in 0..MaxCount : SetResponse(i, v)
    \/ \E c \in ConfLevels : SetConfLevel(c)
    \/ \E t \in 0..MaxTotal : SetSurveyTotal(t)

Spec == Init /\ [][Next]_vars

\* ------------------------------------------------------------ properties
Zero == [k |-> "fin", n |-> 0, d |-> 1, e |-> 0]
One == [k |-> "fin", n |-> 1, d |-> 1, e |-> 0]

\* x <= y on floats: False when either is nan
Leq(x, y) ==
    /\ x.k # "nan" /\ y.k # "nan"
    /\ \/ x.k = "ninf"
       \/ y.k = "inf"
       \/ x.k = "fin" /\ y.k = "fin" /\ x.n * y.d <= y.n * x.d

\* high - low of an interval is 2 * t * scale.  Widths are compared between
\* intervals of one t (same confidence level and degrees of freedom) or of one
\* scale; a nan bound compares False, as in float64.
WidthLeq(a, b) ==
    /\ a.k = "fin" /\ b.k = "fin"
    /\ \/ a.t = b.t /\ ~RootGt(a.scale, b.scale)
       \/ a.scale = b.scale /\ a.t <= b.t

WidthLt(a, b) ==
    /\ a.k = "fin" /\ b.k = "fin"
    /\ \/ a.t = b.t /\ RootGt(b.scale, a.scale)
       \/ a.scale = b.scale /\ a.t < b.t

WidthEq(a, b) == a.k = "fin" /\ b.k = "fin" /\ a.t = b.t /\ a.scale = b.scale

\* low = high = loc
IsPoint(ci) == ci.k = "fin" /\ RootIsZero(ci.scale)

Intervals == {"csat_score_ci", "csat_percent_ci",
              "csat_score_ci_fpc", "csat_percent_ci_fpc"}

\* C1: with 0 or 1 respondents the run signals InsufficientDataError and shows
\* no nan bound.
C1_InsufficientData ==
    out.survey_count <= 1 =>
        /\ out.raised = "InsufficientDataError"
        /\ \A c \in Intervals : out[c].k # "nan"

\* C2: with a population size entered that is smaller than the respondents the
\* run signals ValidationError and computes no correction factor.
C2_PopulationBelowSample ==
    (total_entry.set /\ out.survey_total < out.survey_count) =>
        out.raised = "ValidationError"

\* C3: with N >= 2 and population size equal to N, the standard error of each
\* corrected interval is a positive number and the interval is finite.
C3_ClampedStandardError ==
    (out.survey_count >= 2 /\ out.survey_total = out.survey_count) =>
        \A c \in {"csat_score_ci_fpc", "csat_percent_ci_fpc"} :
            out[c].k = "fin" /\ RootGt(out[c].scale, Zero)

\* C4: with N >= 2 the score lies in [1, n_level] and the percent in [0, 1].
C4_ScoreAndPercentInRange ==
    out.survey_count >= 2 =>
        /\ Leq(Num(1), out.csat_score) /\ Leq(out.csat_score, Num(n_level))
        /\ Leq(Num(0), out.csat_percent) /\ Leq(out.csat_percent, Num(1))

\* a run with N >= 2 whose score and percent sit on the lower ends of the ranges
C4_Witness ==
    /\ out.survey_count >= 2
    /\ out.csat_score = Num(1)
    /\ out.csat_percent = Num(0)

\* C5: with N >= 2 and population size > N, fpc lies in [0, 1] and each
\* corrected interval is no wider than the uncorrected one.
C5_FpcNarrows ==
    (out.survey_count >= 2 /\ out.survey_total > out.survey_count) =>
        /\ ~RootGt(Zero, out.fpc) /\ ~RootGt(out.fpc, One) /\ out.fpc.k = "fin"
        /\ WidthLeq(out.csat_score_ci_fpc, out.csat_score_ci)
        /\ WidthLeq(out.csat_percent_ci_fpc, out.csat_percent_ci)

RaisedConfidence ==
    /\ conf_level' > conf_level
    /\ res_list' = res_list
    /\ total_entry' = total_entry

C7_DegeneratePercent ==
    (out.survey_count >= 2 /\ out.csat_percent \in {Num(0), Num(1)}) =>
        /\ RootIsZero(out.std_csat_percent)
        /\ IsPoint(out.csat_percent_ci) /\ IsPoint(out.csat_percent_ci_fpc)
        /\ out.raised = "none"

RECURSIVE square_sum(_, _)
\* sum of level^2 * count, levels 1..i
square_sum(rl, i) == IF i = 0 THEN 0 ELSE square_sum(rl, i - 1) + i * i * rl[i]

RECURSIVE level_sum(_, _)
\* sum of level * count, levels 1..i
level_sum(rl, i) == IF i = 0 THEN 0 ELSE level_sum(rl, i - 1) + i * rl[i]

RECURSIVE satisfied(_, _)
\* respondents at level >= 4, levels 1..i
satisfied(rl, i) ==
    IF i = 0 THEN 0 ELSE satisfied(rl, i - 1) + (IF i >= 4 THEN rl[i] ELSE 0)

\* the interval is the one t.interval builds on the scale se * factor
BuiltOn(ci, loc, se, factor) ==
    IF RootGt(RootMul(se, factor), Zero)
    THEN ci.k = "fin" /\ ci.loc = loc /\ ci.scale = RootMul(se, factor)
    ELSE ci.k = "nan"

\* C9: with N >= 2 the variance is sum(count * (level - score)^2) / (N - 1),
\* here in the form (N * sum(level^2 * count) - sum(level * count)^2) / (N * (N - 1));
\* the score's standard error is its root over sqrt(N), the percent's is
\* sqrt(percent * (1 - percent) / N), and each interval is built on its own.
C9_StandardErrors ==
    LET N == out.survey_count
        S == level_sum(res_list, n_level)
        K == satisfied(res_list, n_level)
        var_num == N * square_sum(res_list, n_level) - S * S
    IN  N >= 2 =>
          /\ out.std_sample = Sqrt(Fin(var_num, N * (N - 1)))
          /\ out.std_csat_score = Sqrt(Fin(var_num, N * N * (N - 1)))
          /\ out.std_csat_percent = Sqrt(Fin(K * (N - K), N * N * N))
          /\ BuiltOn(out.csat_score_ci, out.csat_score, out.std_csat_score, One)
          /\ BuiltOn(out.csat_percent_ci, out.csat_percent,
                     out.std_csat_percent, One)
          /\ BuiltOn(out.csat_score_ci_fpc, out.csat_score,
                     out.std_csat_score, out.fpc_factor)
          /\ BuiltOn(out.csat_percent_ci_fpc, out.csat_percent,
                     out.std_csat_percent, out.fpc_factor)

\* a run with two different positive standard errors and a population size
\* above N
C9_Witness ==
    /\ out.survey_count >= 2
    /\ out.survey_total > out.survey_count
    /\ RootGt(out.std_csat_score, Zero)
    /\ RootGt(out.std_csat_percent, Zero)
    /\ out.std_csat_score # out.std_csat_percent
    /\ out.csat_score_ci_fpc.scale # out.csat_percent_ci_fpc.scale

\* C10: with no population size entered and N >= 2, fpc is 0, the factor is
\* default_zero, and each corrected interval is 1e-8 times as wide as the
\* uncorrected one.
C10_DefaultRunClamped ==
    (~total_entry.set /\ out.survey_count >= 2) =>
        /\ out.survey_total = out.survey_count
        /\ RootIsZero(out.fpc)
        /\ out.fpc_factor = default_zero
        /\ \A m \in {"csat_score_ci", "csat_percent_ci"} :
             LET a == out[m]
                 b == out[IF m = "csat_score_ci" THEN "csat_score_ci_fpc"
                          ELSE "csat_percent_ci_fpc"]
             IN  /\ a.k = "fin" /\ b.k = "fin"
                 /\ b.t = a.t
                 /\ b.scale = RootMul(a.scale, default_zero)

====
